---- MODULE Spec2Model ----
(***************************************************************************)
(* FinalizerProcess.__init__ of                                            *)
(* tensorflow_federated/python/learning/framework/finalizers.py, as a      *)
(* state machine: the constructor is given a pair (initialize_fn, next_fn) *)
(* and walks through its checks one statement at a time, until it either   *)
(* raises or returns the constructed object.                               *)
(***************************************************************************)
EXTENDS Integers, Sequences, FiniteSets, TLC

VARIABLES initialize_fn, next_fn, pc, error, self, process, checked

vars == <<initialize_fn, next_fn, pc, error, self, process, checked>>

(***************************************************************************)
(* Type signatures.  Every type is a record of one shape; sub holds the  *)
(* member of a federated type and the elements of a struct type.           *)
(***************************************************************************)
SERVER == "SERVER"
CLIENTS == "CLIENTS"

Ty(kind, placement, container, dtype, shape, sub) ==
    [kind |-> kind, placement |-> placement, container |-> container,
     dtype |-> dtype, shape |-> shape, sub |-> sub]

NoneType == Ty("none", "-", "-", "-", "-", <<>>)

TensorType(dtype, shape) == Ty("tensor", "-", "-", dtype, shape, <<>>)

StructType(elems) == Ty("struct", "-", "-", "-", "-", elems)

StructWithPythonType(elems, container) ==
    Ty("struct", "-", container, "-", "-", elems)

FederatedType(member, placement) ==
    Ty("federated", placement, "-", "-", "-", <<member>>)

FunctionType(parameter, result) == [parameter |-> parameter, result |-> result]

Computation(parameter, result) ==
    [type_signature |-> FunctionType(parameter, result)]

is_federated(t) == t.kind = "federated"

is_struct(t) == t.kind = "struct"

is_struct_with_python(t) == t.kind = "struct" /\ t.container # "-"

\* t.member of a federated type t
member(t) == t.sub[1]

\* the fields of the MeasuredProcessOutput a step function returns
state_of(r) == r.sub[1]
result_of(r) == r.sub[2]
measurements_of(r) == r.sub[3]

MeasuredProcessOutput(state, result, measurements) ==
    StructWithPythonType(<<state, result, measurements>>, "MeasuredProcessOutput")

RECURSIVE is_assignable_from(_, _)
\* target.is_assignable_from(source)
is_assignable_from(target, source) ==
    /\ target.kind = source.kind
    /\ CASE target.kind = "tensor" ->
              /\ target.dtype = source.dtype
              /\ (target.shape = "?" \/ target.shape = source.shape)
         [] target.kind = "federated" ->
              /\ target.placement = source.placement
              /\ is_assignable_from(member(target), member(source))
         [] target.kind = "struct" ->
              /\ Len(target.sub) = Len(source.sub)
              /\ \A i \in 1..Len(target.sub) :
                    is_assignable_from(target.sub[i], source.sub[i])
         [] OTHER -> TRUE

RECURSIVE FlattenSeq(_)
RECURSIVE flatten(_)
\* structure.flatten: the leaves of a struct, in order; a non-struct is its own leaf
flatten(t) == IF is_struct(t) THEN FlattenSeq(t.sub) ELSE <<t>>
FlattenSeq(s) == IF s = <<>> THEN <<>> ELSE flatten(Head(s)) \o FlattenSeq(Tail(s))

\* str.join(items) raises TypeError when an item is not a str; the items
\* handed to it here are type objects or strings tagged "str"
join_raises(items) == \E i \in 1..Len(items) : items[i].kind # "str"

\* str(t): the printed form of a type, tagged as a string
str(t) == [t EXCEPT !.kind = "str"]

(***************************************************************************)
(* The type signatures the constructor is tried on.                        *)
(***************************************************************************)
MaxArity == 4

NumArgs == 3

int32 == TensorType("int32", "3")
float32_any == TensorType("float32", "?")
float32_3 == TensorType("float32", "3")

ModelWeights(t) == StructWithPythonType(<<t, t>>, "ModelWeights")

StateTypes ==
    { FederatedType(int32, SERVER),
      FederatedType(int32, CLIENTS),
      int32,
      StructType(<<FederatedType(int32, SERVER)>>) }

WeightsTypes ==
    { FederatedType(ModelWeights(float32_any), SERVER),
      FederatedType(ModelWeights(float32_3), SERVER),
      FederatedType(ModelWeights(float32_any), CLIENTS),
      FederatedType(StructWithPythonType(<<float32_any, float32_any>>, "OrderedDict"), SERVER),
      FederatedType(StructType(<<float32_any, float32_any>>), SERVER),
      FederatedType(float32_any, SERVER),
      ModelWeights(float32_any),
      ModelWeights(FederatedType(float32_any, SERVER)) }

UpdateTypes ==
    { FederatedType(float32_3, SERVER),
      FederatedType(float32_3, CLIENTS),
      float32_3,
      StructType(<<FederatedType(float32_3, SERVER)>>) }

ResultTypes ==
    { FederatedType(ModelWeights(float32_any), SERVER),
      FederatedType(ModelWeights(float32_3), SERVER),
      FederatedType(ModelWeights(float32_3), CLIENTS),
      FederatedType(ModelWeights(int32), SERVER),
      ModelWeights(float32_3),
      ModelWeights(FederatedType(float32_3, SERVER)) }

MeasurementsTypes ==
    { FederatedType(int32, SERVER),
      FederatedType(int32, CLIENTS),
      int32,
      StructType(<<FederatedType(int32, SERVER)>>) }

ParamOfLen(n, s, w, u) ==
    StructType([i \in 1..n |-> IF i = 1 THEN s ELSE IF i = 2 THEN w ELSE u])

ParameterTypes ==
    { ParamOfLen(n, s, w, u) :
        n \in 0..MaxArity, s \in StateTypes, w \in WeightsTypes, u \in UpdateTypes }
    \cup StateTypes

NextResultTypes ==
    { MeasuredProcessOutput(s, r, m) :
        s \in StateTypes, r \in ResultTypes, m \in MeasurementsTypes }

InitializeFns == { Computation(NoneType, s) : s \in StateTypes }

NextFns == { Computation(p, r) : p \in ParameterTypes, r \in NextResultTypes }

NoComputation == Computation(NoneType, NoneType)

NoObject == [initialize |-> NoComputation, next |-> NoComputation]

NoError == [kind |-> "none", text |-> "", types |-> <<>>]

Init ==
    /\ initialize_fn \in InitializeFns
    /\ next_fn \in NextFns
    /\ pc = "super"
    /\ error = NoError
    /\ self = NoObject
    /\ process = NoObject
    /\ checked = <<>>

(***************************************************************************)
(* The statements of __init__.                                             *)
(***************************************************************************)
Raise(kind, text, types) ==
    /\ pc' = "raised"
    /\ error' = [kind |-> kind, text |-> text, types |-> types]

Goto(label) ==
    /\ pc' = label
    /\ error' = error

At(label, check) ==
    /\ pc = label
    /\ checked' = Append(checked, check)
    /\ UNCHANGED <<initialize_fn, next_fn>>

\* the state type the base class reads off next_fn (next_is_multi_arg=True)
next_state_type ==
    LET p == next_fn.type_signature.parameter
    IN  IF is_struct(p) /\ Len(p.sub) > 0 THEN p.sub[1] ELSE p

StateIsAssignable ==
    /\ is_assignable_from(next_state_type, initialize_fn.type_signature.result)
    /\ is_assignable_from(next_state_type, state_of(next_fn.type_signature.result))

\* super().__init__(initialize_fn, next_fn, next_is_multi_arg=True)
SuperInit ==
    /\ At("super", "state_assignable")
    /\ process' = process
    /\ IF ~StateIsAssignable
       THEN /\ Raise("TemplateStateNotAssignableError", "state not assignable",
                     <<next_state_type>>)
            /\ self' = self
       ELSE /\ Goto("initialize_federated")
            /\ self' = [initialize |-> initialize_fn, next |-> next_fn]

\* mutant: a tensor result is let through as if it were federated
InitializeIsFederatedOrTensor ==
    initialize_fn.type_signature.result.kind \in {"federated", "tensor"}

InitializeIsFederated == is_federated(initialize_fn.type_signature.result)

CheckInitializeFederated ==
    /\ At("initialize_federated", "initialize_federated")
    /\ UNCHANGED <<self, process>>
    /\ IF ~InitializeIsFederated
       THEN Raise("TemplateNotFederatedError",
                  "Provided initialize_fn must return a federated type",
                  <<initialize_fn.type_signature.result>>)
       ELSE Goto("next_federated")

next_types ==
    flatten(next_fn.type_signature.parameter) \o flatten(next_fn.type_signature.result)

NotFederated(t) == ~is_federated(t)

\* the list comprehension handed to str.join
offending_types == SelectSeq(next_types, NotFederated)

NextIsFederated == \A i \in 1..Len(next_types) : is_federated(next_types[i])

CheckNextFederated ==
    /\ At("next_federated", "next_federated")
    /\ UNCHANGED <<self, process>>
    /\ IF ~NextIsFederated
       THEN IF join_raises(offending_types)
            THEN Raise("TypeError", "sequence item 0: expected str instance", <<>>)
            ELSE Raise("TemplateNotFederatedError",
                       "Provided next_fn must be a *federated* computation",
                       offending_types)
       ELSE Goto("initialize_placement")

\* mutant: any placement of the initializer result is let through
InitializeAtAnyPlacement ==
    initialize_fn.type_signature.result.placement \in {SERVER, CLIENTS}

InitializeAtServer == initialize_fn.type_signature.result.placement = SERVER

CheckInitializePlacement ==
    /\ At("initialize_placement", "initialize_placement")
    /\ UNCHANGED <<self, process>>
    /\ IF ~InitializeAtServer
       THEN Raise("TemplatePlacementError",
                  "The state controlled by an FinalizerProcess must be placed at the SERVER",
                  <<initialize_fn.type_signature.result>>)
       ELSE Goto("param_struct")

next_fn_param == next_fn.type_signature.parameter

\* mutant: a federated parameter is let through as if it were a struct
ParamIsStructOrFederated == is_struct(next_fn_param) \/ is_federated(next_fn_param)

ParamIsStruct == is_struct(next_fn_param)

CheckParamIsStruct ==
    /\ At("param_struct", "param_struct")
    /\ UNCHANGED <<self, process>>
    /\ IF ~ParamIsStruct
       THEN Raise("TemplateNextFnNumArgsError",
                  "input type which is not a Struct",
                  <<next_fn_param>>)
       ELSE Goto("param_len")

\* mutant: the length is compared with two, as the first message has it
ParamLenIsTwo == Len(next_fn_param.sub) = 2

ParamLenIsThree == Len(next_fn_param.sub) = NumArgs

\* [str(t) for t in next_fn_param]
next_param_str == [i \in 1..Len(next_fn_param.sub) |-> str(next_fn_param.sub[i])]

CheckParamLen ==
    /\ At("param_len", "param_len")
    /\ UNCHANGED <<self, process>>
    /\ IF ~ParamLenIsThree
       THEN IF join_raises(next_param_str)
            THEN Raise("TypeError", "sequence item 0: expected str instance", <<>>)
            ELSE Raise("TemplateNextFnNumArgsError",
                       "must have exactly three input arguments",
                       next_fn_param.sub)
       ELSE Goto("weights_placement")

model_weights_param == next_fn_param.sub[2]

update_from_clients_param == next_fn_param.sub[3]

\* reading t.placement: only a federated type has the attribute
PlacementCheck(t, text, label) ==
    IF ~is_federated(t)
    THEN Raise("AttributeError", "object has no attribute placement", <<>>)
    ELSE IF t.placement # SERVER
         THEN Raise("TemplatePlacementError", text, <<t>>)
         ELSE Goto(label)

CheckModelWeightsPlacement ==
    /\ At("weights_placement", "weights_placement")
    /\ UNCHANGED <<self, process>>
    /\ PlacementCheck(model_weights_param,
                      "The second input argument of next_fn must be placed at SERVER",
                      "weights_container")

\* mutant: any Python container is let through
HasPythonContainer == is_struct_with_python(member(model_weights_param))

HasModelWeightsContainer ==
    /\ is_struct_with_python(member(model_weights_param))
    /\ member(model_weights_param).container = "ModelWeights"

CheckModelWeightsContainer ==
    /\ At("weights_container", "weights_container")
    /\ UNCHANGED <<self, process>>
    /\ IF ~HasModelWeightsContainer
       THEN Raise("ModelWeightsTypeError",
                  "The second input argument of next_fn must have the tff.learning.ModelWeights container",
                  <<model_weights_param>>)
       ELSE Goto("update_placement")

\* mutant: the placement of the second parameter is checked a second time
CheckUpdatePlacementOfWeights ==
    /\ At("update_placement", "update_placement")
    /\ UNCHANGED <<self, process>>
    /\ PlacementCheck(model_weights_param,
                      "The third input argument of next_fn must be placed at SERVER",
                      "result_placement")

CheckUpdatePlacement ==
    /\ At("update_placement", "update_placement")
    /\ UNCHANGED <<self, process>>
    /\ PlacementCheck(update_from_clients_param,
                      "The third input argument of next_fn must be placed at SERVER",
                      "result_placement")

next_fn_result == next_fn.type_signature.result

CheckResultPlacement ==
    /\ At("result_placement", "result_placement")
    /\ UNCHANGED <<self, process>>
    /\ PlacementCheck(result_of(next_fn_result),
                      "The result attribute of the return type of next_fn must be placed at SERVER",
                      "result_assignable")

\* mutant: the assignability is asked the other way round
ResultIsAssignableReversed ==
    is_assignable_from(member(result_of(next_fn.type_signature.result)),
                       member(model_weights_param))

ResultIsAssignable ==
    is_assignable_from(member(model_weights_param), member(result_of(next_fn_result)))

CheckResultAssignable ==
    /\ At("result_assignable", "result_assignable")
    /\ UNCHANGED <<self, process>>
    /\ IF ~ResultIsAssignable
       THEN Raise("FinalizerResultTypeError",
                  "The second input argument of next_fn must match the result attribute",
                  <<member(next_fn_param.sub[2]), member(result_of(next_fn_result))>>)
       ELSE Goto("measurements_placement")

\* the last statement: falling off the end of __init__ hands the object back
CheckMeasurementsPlacement ==
    /\ At("measurements_placement", "measurements_placement")
    /\ self' = self
    /\ PlacementCheck(measurements_of(next_fn_result),
                      "The measurements attribute of return type of next_fn must be placed at SERVER",
                      "done")
    /\ process' = IF pc' = "done" THEN self ELSE process

Next ==
    \/ SuperInit
    \/ CheckInitializeFederated
    \/ CheckNextFederated
    \/ CheckInitializePlacement
    \/ CheckParamIsStruct
    \/ CheckParamLen
    \/ CheckModelWeightsPlacement
    \/ CheckModelWeightsContainer
    \/ CheckUpdatePlacement
    \/ CheckResultPlacement
    \/ CheckResultAssignable
    \/ CheckMeasurementsPlacement

Spec == Init /\ [][Next]_vars

(***************************************************************************)
(* Vocabulary of the properties, written over the inputs themselves.       *)
(***************************************************************************)
init_result == initialize_fn.type_signature.result

Terminated == pc \in {"done", "raised"}

Succeeded ==
    /\ pc # "raised"
    /\ pc = "done" => /\ process.initialize = initialize_fn
                      /\ process.next = next_fn

FailsWith(kind) ==
    /\ pc # "done"
    /\ process = NoObject
    /\ pc = "raised" => error.kind = kind

AtServer(t) == is_federated(t) /\ t.placement = SERVER

CarriesModelWeights(t) == t.kind = "struct" /\ t.container = "ModelWeights"

\* the base class accepted the pair
BaseAccepted == self # NoObject

\* the conditions the definition of a valid pair lists
ListedValid(i, p, r) ==
    /\ AtServer(i)
    /\ p.kind = "struct" /\ Len(p.sub) = 3
    /\ \A k \in 1..3 : AtServer(p.sub[k])
    /\ CarriesModelWeights(p.sub[2].sub[1])
    /\ AtServer(r.sub[2])
    /\ is_assignable_from(p.sub[2].sub[1], r.sub[2].sub[1])
    /\ AtServer(r.sub[3])

\* the state parameter and the state field have the initializer's type
StateMatches(i, p, r) ==
    /\ p.kind = "struct" /\ Len(p.sub) > 0
    /\ is_assignable_from(p.sub[1], i)
    /\ is_assignable_from(p.sub[1], r.sub[1])

\* C1 as stated: every pair meeting the listed conditions is constructed,
\* and the object's initialize and next are the two inputs.
C1_Stated ==
    ListedValid(init_result, next_fn_param, next_fn_result) => Succeeded

\* C1 as amended: a pair meeting the listed conditions whose state parameter
\* is assignable from the initializer result and from the state field of the
\* result is constructed, and the object's initialize and next are the inputs.
C1_ValidPairSucceeds ==
    ( /\ ListedValid(init_result, next_fn_param, next_fn_result)
      /\ StateMatches(init_result, next_fn_param, next_fn_result) )
    => Succeeded

C1_Witness ==
    /\ pc = "done"
    /\ ListedValid(init_result, next_fn_param, next_fn_result)
    /\ process = [initialize |-> initialize_fn, next |-> next_fn]

\* C2: an accepted pair has the documented signature: the initializer result,
\* the three parameters and the three result fields are all federated and
\* placed at SERVER, and the second parameter carries ModelWeights.
C2_AcceptedConforms ==
    pc = "done" =>
        /\ AtServer(init_result)
        /\ next_fn_param.kind = "struct" /\ Len(next_fn_param.sub) = 3
        /\ \A k \in 1..3 : AtServer(next_fn_param.sub[k])
        /\ CarriesModelWeights(next_fn_param.sub[2].sub[1])
        /\ \A k \in 1..3 : AtServer(next_fn_result.sub[k])

C2_Witness ==
    /\ pc = "done"
    /\ AtServer(next_fn_param.sub[1])
    /\ AtServer(next_fn_result.sub[1])

SomeLeafNotFederated ==
    \E k \in 1..Len(next_types) : next_types[k].kind # "federated"

Taxonomy ==
    { "TemplateNotFederatedError", "TemplatePlacementError",
      "TemplateNextFnNumArgsError", "ModelWeightsTypeError",
      "FinalizerResultTypeError" }

\* C3 as stated, for the pairs it names (the base class accepts them and
\* every flattened leaf of next_fn is federated): a construction that fails
\* raises one of the five error kinds of the taxonomy.
C3_Stated ==
    (pc = "raised" /\ BaseAccepted /\ ~SomeLeafNotFederated) => error.kind \in Taxonomy

\* C4 as stated: an initializer whose result is not federated fails with the
\* not-federated error, whatever next_fn comes with it.
C4_Stated ==
    ~is_federated(init_result) => FailsWith("TemplateNotFederatedError")

\* C4 as amended: an initializer whose result is not federated, together with
\* any next_fn the base class accepts (its state parameter is assignable from
\* the initializer result and from the state field of its result), fails with
\* the not-federated error.
C4_NonFederatedInitFails ==
    ( /\ ~is_federated(init_result)
      /\ is_assignable_from(next_state_type, init_result)
      /\ is_assignable_from(next_state_type, next_fn_result.sub[1]) )
    => /\ FailsWith("TemplateNotFederatedError")
       /\ pc \in {"super", "initialize_federated", "raised"}

C4_Witness ==
    /\ pc = "raised"
    /\ ~is_federated(init_result)
    /\ error.kind = "TemplateNotFederatedError"
    /\ error.types = <<init_result>>

\* C5 as stated, for the pairs the base class accepts: a federated initializer
\* with a non-federated leaf in next_fn fails with the not-federated error,
\* whose message lists exactly the non-federated leaves.
C5_Stated ==
    (pc = "raised" /\ BaseAccepted /\ is_federated(init_result) /\ SomeLeafNotFederated)
    => /\ error.kind = "TemplateNotFederatedError"
       /\ error.types = SelectSeq(next_types, NotFederated)

WrongShape == next_fn_param.kind # "struct" \/ Len(next_fn_param.sub) # 3

NumArgsErrorRaised ==
    /\ pc # "done"
    /\ process = NoObject
    /\ pc = "raised" =>
          /\ error.kind = "TemplateNextFnNumArgsError"
          /\ IF next_fn_param.kind # "struct"
             THEN /\ error.text = "input type which is not a Struct"
                  /\ error.types = <<next_fn_param>>
             ELSE /\ error.text = "must have exactly three input arguments"
                  /\ error.types = next_fn_param.sub

\* C6 as stated, for the pairs the base class accepts: a parameter that is
\* not a struct, or a struct of another length than 3, fails with the
\* argument-count error.
C6_Stated ==
    (WrongShape /\ (pc = "raised" => BaseAccepted)) => NumArgsErrorRaised

\* C6 as amended: when the base class accepts the pair, the initializer
\* result is federated and placed at SERVER and every leaf of next_fn is
\* federated, a parameter that is not a struct, or a struct of another length
\* than 3, fails with the argument-count error, and the two cases carry
\* different messages.
C6_WrongShapeFails ==
    ( /\ WrongShape
      /\ is_assignable_from(next_state_type, init_result)
      /\ is_assignable_from(next_state_type, next_fn_result.sub[1])
      /\ AtServer(init_result)
      /\ ~SomeLeafNotFederated )
    => /\ NumArgsErrorRaised
       /\ pc \in {"super", "initialize_federated", "next_federated",
                  "initialize_placement", "param_struct", "param_len", "raised"}

C6_Witness ==
    /\ pc = "raised"
    /\ next_fn_param.kind = "struct" /\ Len(next_fn_param.sub) = 2
    /\ error.kind = "TemplateNextFnNumArgsError"
    /\ error.text = "must have exactly three input arguments"

\* every requirement on a pair but the one on the result's member type
OtherwiseValid(i, p, r) ==
    /\ StateMatches(i, p, r)
    /\ AtServer(i)
    /\ Len(p.sub) = 3
    /\ \A k \in 1..3 : AtServer(p.sub[k])
    /\ CarriesModelWeights(p.sub[2].sub[1])
    /\ \A k \in 1..3 : AtServer(r.sub[k])

\* C7: an otherwise valid pair fails with the result-type-mismatch error,
\* whose message holds the second parameter's member type and the result
\* field's member type, exactly when the second parameter's member type is
\* not assignable from the result field's member type; a pair whose weights
\* type accepts the result type is accepted even when the result type would
\* not accept the weights type.
C7_MismatchIffNotAssignable ==
    (Terminated /\ OtherwiseValid(init_result, next_fn_param, next_fn_result)) =>
        LET weights == next_fn_param.sub[2].sub[1]
            result == next_fn_result.sub[2].sub[1]
        IN  IF is_assignable_from(weights, result)
            THEN /\ pc = "done"
                 /\ process = [initialize |-> initialize_fn, next |-> next_fn]
            ELSE /\ pc = "raised"
                 /\ process = NoObject
                 /\ error.kind = "FinalizerResultTypeError"
                 /\ error.types = <<weights, result>>

\* rejected although the result type would accept the weights type
C7_Witness ==
    /\ pc = "raised"
    /\ OtherwiseValid(init_result, next_fn_param, next_fn_result)
    /\ error.kind = "FinalizerResultTypeError"
    /\ is_assignable_from(next_fn_result.sub[2].sub[1], next_fn_param.sub[2].sub[1])
    /\ ~is_assignable_from(next_fn_param.sub[2].sub[1], next_fn_result.sub[2].sub[1])

\* the federated, initializer-placement and arity checks ran and passed
PassedArityChecks ==
    Len(checked) > 6 \/ (Len(checked) = 6 /\ pc # "raised")

\* C8: once the federated, initializer-placement and arity checks have
\* passed and the second parameter is placed at SERVER, a second parameter
\* whose member is not a struct with a Python container, or whose container
\* is not ModelWeights, fails with the container-type error.
C8_ContainerTypeError ==
    ( /\ PassedArityChecks
      /\ AtServer(next_fn_param.sub[2])
      /\ ~CarriesModelWeights(next_fn_param.sub[2].sub[1]) )
    => /\ pc \in {"weights_placement", "weights_container", "raised"}
       /\ process = NoObject
       /\ pc = "raised" =>
             /\ error.kind = "ModelWeightsTypeError"
             /\ error.types = <<next_fn_param.sub[2]>>

C8_Witness ==
    /\ pc = "raised"
    /\ error.kind = "ModelWeightsTypeError"
    /\ AtServer(next_fn_param.sub[2])
    /\ next_fn_param.sub[2].sub[1].container = "OrderedDict"

ToServer(t) == [t EXCEPT !.placement = SERVER]

FullyValid(i, p, r) ==
    /\ OtherwiseValid(i, p, r)
    /\ is_assignable_from(p.sub[2].sub[1], r.sub[2].sub[1])

\* the pair at hand is a valid pair with the value at position pos moved from
\* SERVER to CLIENTS: 1 the initializer result (with the state parameter and
\* the state field), 2 the second parameter, 3 the third parameter, 4 the
\* result field, 5 the measurements field
SwappedAt(pos) ==
    LET i == init_result
        p == next_fn_param
        r == next_fn_result
    IN  /\ p.kind = "struct" /\ Len(p.sub) = 3
        /\ CASE pos = 1 ->
                  /\ i.placement = CLIENTS
                  /\ p.sub[1].placement = CLIENTS
                  /\ r.sub[1].placement = CLIENTS
                  /\ FullyValid(ToServer(i),
                                [p EXCEPT !.sub[1] = ToServer(@)],
                                [r EXCEPT !.sub[1] = ToServer(@)])
             [] pos \in {2, 3} ->
                  /\ p.sub[pos].placement = CLIENTS
                  /\ FullyValid(i, [p EXCEPT !.sub[pos] = ToServer(@)], r)
             [] pos \in {4, 5} ->
                  /\ r.sub[pos - 2].placement = CLIENTS
                  /\ FullyValid(i, p, [r EXCEPT !.sub[pos - 2] = ToServer(@)])

Offending(pos) ==
    CASE pos = 1 -> init_result
      [] pos \in {2, 3} -> next_fn_param.sub[pos]
      [] pos \in {4, 5} -> next_fn_result.sub[pos - 2]

\* C9: a valid pair with one of the five values moved from SERVER to CLIENTS
\* fails with the placement error, whose message shows that value.
C9_SwappedPlacementFails ==
    \A pos \in 1..5 :
        SwappedAt(pos) =>
            /\ pc # "done"
            /\ process = NoObject
            /\ pc = "raised" =>
                  /\ error.kind = "TemplatePlacementError"
                  /\ error.types = <<Offending(pos)>>

\* the third parameter moved to CLIENTS
C9_Witness ==
    /\ pc = "raised"
    /\ SwappedAt(3)
    /\ error.kind = "TemplatePlacementError"
    /\ error.types = <<next_fn_param.sub[3]>>

CheckOrder ==
    << "initialize_federated", "next_federated", "initialize_placement",
       "param_struct", "param_len", "weights_placement", "weights_container",
       "update_placement", "result_placement", "result_assignable",
       "measurements_placement" >>

ErrorOfCheck ==
    << "TemplateNotFederatedError", "TemplateNotFederatedError",
       "TemplatePlacementError", "TemplateNextFnNumArgsError",
       "TemplateNextFnNumArgsError", "TemplatePlacementError",
       "ModelWeightsTypeError", "TemplatePlacementError",
       "TemplatePlacementError", "FinalizerResultTypeError",
       "TemplatePlacementError" >>

\* the first check of the sequence the pair violates, 0 when there is none
FirstViolated ==
    LET i == init_result
        p == next_fn_param
        r == next_fn_result
    IN  IF ~is_federated(i) THEN 1
        ELSE IF SomeLeafNotFederated THEN 2
        ELSE IF i.placement # SERVER THEN 3
        ELSE IF p.kind # "struct" THEN 4
        ELSE IF Len(p.sub) # 3 THEN 5
        ELSE IF ~AtServer(p.sub[2]) THEN 6
        ELSE IF ~CarriesModelWeights(p.sub[2].sub[1]) THEN 7
        ELSE IF ~AtServer(p.sub[3]) THEN 8
        ELSE IF ~AtServer(r.sub[2]) THEN 9
        ELSE IF ~is_assignable_from(p.sub[2].sub[1], r.sub[2].sub[1]) THEN 10
        ELSE IF ~AtServer(r.sub[3]) THEN 11
        ELSE 0

\* C10 as stated, for the pairs the base class accepts: a failure comes from
\* the earliest violated check of the sequence and carries that check's
\* error, the checks before it ran in order and none after it, and no object
\* is returned.
C10_Stated ==
    (pc = "raised" /\ BaseAccepted) =>
        /\ FirstViolated # 0
        /\ checked = <<"state_assignable">> \o SubSeq(CheckOrder, 1, FirstViolated)
        /\ error.kind = ErrorOfCheck[FirstViolated]
        /\ process = NoObject

====
